---------------------------- MODULE Spec2Model ----------------------------
(***************************************************************************)
(* A model of adb_query_runner's pipeline:                                 *)
(*   execute_query      (src/src/main.rs)           cursor pagination      *)
(*   is_graph           (src/src/graph_analyzer.rs) graph classification   *)
(*   send_to_cytoscape  (src/src/cytoscape.rs)      upload protocol        *)
(* Each of the three functions has a specification of its own (SpecQuery,  *)
(* SpecGraph, SpecCyto); the variables of the other two stay at their      *)
(* idle values.                                                            *)
(***************************************************************************)
EXTENDS Integers, Sequences, FiniteSets, TLC

VARIABLES
    \* is_graph
    array,          \* the input array of is_graph
    g_pc,           \* "input" | "classified" | "reclassified"
    graph_check,    \* the Result returned by is_graph(array)
    graph_check2,   \* the Result of is_graph on the output of the first call
    \* execute_query
    q_pc,           \* "start" | "loop" | "done"
    results,        \* the Vec the batches are appended to
    cursor_id,      \* initial_response["id"], once read
    requests,       \* the requests sent to the store so far
    responses,      \* the responses the store gave to them
    q_ret,          \* "none" | "Ok" | "Err" | "Panic"
    \* send_to_cytoscape
    c_pc,           \* "start" | "node_columns" | "edge_columns" | "layout" | "done"
    vertices,       \* the vertices argument (an array)
    edges,          \* the edges argument (an array)
    network_suid,   \* network_response["networkSUID"], once read
    node_columns_left,  \* keys of node_table_columns not yet iterated
    edge_columns_left,  \* keys of edge_table_columns not yet iterated
    sent,           \* the requests sent to the service, each with its response
    c_ret,          \* "none" | "Ok" | "Err"
    printed         \* the lines send_to_cytoscape wrote with println!

gvars == <<array, g_pc, graph_check, graph_check2>>

qvars == <<q_pc, results, cursor_id, requests, responses, q_ret>>

cvars == <<c_pc, vertices, edges, network_suid, node_columns_left,
           edge_columns_left, sent, c_ret, printed>>

vars == <<gvars, qvars, cvars>>

---------------------------------------------------------------------------
(* Bounds *)

\* Longest input array given to is_graph.
MaxLen == 3

\* Most requests execute_query is followed through (1 POST, the rest PUT).
MaxRequests == 4

\* Longest vertices array, and longest edges array, given to send_to_cytoscape.
MaxDocs == 2

---------------------------------------------------------------------------
(* serde_json::Value.  A Rust string is a sequence of characters, so that  *)
(* counting '/' is something the model computes.                           *)

Str(s)  == [t |-> "String", v |-> s]
Num(s)  == [t |-> "Number", v |-> s]
Bool(s) == [t |-> "Bool",   v |-> s]
Null    == [t |-> "Null",   v |-> <<>>]
Arr     == [t |-> "Array",  v |-> <<>>]
Obj(f)  == [t |-> "Object", o |-> f]

\* Value::as_object / Value::as_str succeed
IsObject(x) == x.t = "Object"
IsStr(x)    == x.t = "String"

\* Map::get(key) is Some
Has(x, k) == k \in DOMAIN x.o

Range(s) == {s[i] : i \in 1..Len(s)}

\* All arrangements of a set as a sequence: the iteration order of a HashSet
\* (or HashMap) is unspecified.
Orderings(S) ==
    {p \in [1..Cardinality(S) -> S] : {p[i] : i \in 1..Cardinality(S)} = S}

---------------------------------------------------------------------------
(* is_graph *)

\* s.chars().filter(|&c| c == '/').count()
SlashCount(s) == Cardinality({i \in 1..Len(s) : s[i] = "/"})

IdFormatOk_atLeastOne(s) == SlashCount(s) >= 1

\* the id checks of lines 28-29 and 50, negated
IdFormatOk(s) == SlashCount(s) = 1

Err(msg, item) == [ok |-> FALSE, error |-> msg, value |-> item]

\* the state of the loop: the four locals and the early return, if any
ScanInit ==
    [ret |-> <<>>, vertices |-> <<>>, edges |-> <<>>,
     vertex_ids |-> {}, vertex_ids_needed |-> {}]

Fail(st, msg, item) == [st EXCEPT !.ret = <<Err(msg, item)>>]

EdgeStep(st, item) ==
    [st EXCEPT !.vertex_ids_needed = @ \cup {item.o["_from"].v, item.o["_to"].v},
               !.edges = Append(@, item)]

VertexStep_noInsert(st, item) ==
    [st EXCEPT !.vertices = Append(@, item)]

VertexStep(st, item) ==
    [st EXCEPT !.vertex_ids = @ \cup {item.o["_id"].v},
               !.vertices = Append(@, item)]

\* one iteration of the loop body, lines 12-70
ScanItem(st, item) ==
    IF ~IsObject(item) THEN Fail(st, "Array contains non-object elements", item)
    ELSE IF Has(item, "_from") /\ Has(item, "_to") THEN
        IF IsStr(item.o["_from"]) /\ IsStr(item.o["_to"]) THEN
            IF ~IdFormatOk(item.o["_from"].v) \/ ~IdFormatOk(item.o["_to"].v)
            THEN Fail(st, "Edge _from or _to has invalid format", item)
            ELSE EdgeStep(st, item)
        ELSE Fail(st, "Edge _from or _to is not a string", item)
    ELSE IF Has(item, "_id") THEN
        IF IsStr(item.o["_id"]) THEN
            IF ~IdFormatOk(item.o["_id"].v)
            THEN Fail(st, "Vertex _id has invalid format", item)
            ELSE VertexStep(st, item)
        ELSE Fail(st, "Vertex _id is not a string", item)
    ELSE Fail(st, "Object is neither vertex nor edge", item)

RECURSIVE Scan(_, _, _)
\* the for loop: stops at the first return
Scan(arr, i, st) ==
    IF i > Len(arr) \/ st.ret # <<>> THEN st
    ELSE Scan(arr, i + 1, ScanItem(st, arr[i]))

NoEdges_never(st) == FALSE

\* edges.is_empty(), line 73
NoEdges(st) == st.edges = <<>>

MissingVertexIds_none(st) == {}

\* vertex_ids_needed.difference(&vertex_ids), line 80
MissingVertexIds(st) == st.vertex_ids_needed \ st.vertex_ids

\* json!({"_id": id})
Placeholder(id) == Obj([k \in {"_id"} |-> Str(id)])

\* Every value is_graph can return on arr: one per iteration order of the
\* set difference.
is_graph(arr) ==
    LET st == Scan(arr, 1, ScanInit) IN
    IF st.ret # <<>> THEN {st.ret[1]}
    ELSE IF NoEdges(st) THEN {[ok |-> FALSE, error |-> "Array contains no valid edges"]}
    ELSE {[ok |-> TRUE,
           vertices |-> st.vertices \o [i \in 1..Len(order) |-> Placeholder(order[i])],
           edges |-> st.edges] : order \in Orderings(MissingVertexIds(st))}

---------------------------------------------------------------------------
(* The arrays is_graph is run on *)

V1   == <<"v", "/", "1">>
V2   == <<"v", "/", "2">>
V3   == <<"v", "/", "3">>
Bad0 == <<"b", "a", "d">>
Bad2 == <<"a", "/", "b", "/", "c">>

GraphItems ==
    { Obj([k \in {"_id"} |-> Str(V1)]),
      Obj("_id" :> Str(V2) @@ "name" :> Str(<<"B">>)),
      Obj("_from" :> Str(V1) @@ "_to" :> Str(V2) @@ "_key" :> Str(<<"e">>)),
      Obj("_from" :> Str(V2) @@ "_to" :> Str(V3)),
      Obj("_id" :> Str(Bad0) @@ "_from" :> Str(V3) @@ "_to" :> Str(V1)),
      Obj("_id" :> Str(V1) @@ "_from" :> Str(Bad0)),
      Obj([k \in {"_id"} |-> Str(Bad0)]),
      Obj([k \in {"_id"} |-> Str(Bad2)]),
      Obj([k \in {"_id"} |-> Num(<<"7">>)]),
      Obj("_from" :> Str(V1) @@ "_to" :> Str(Bad2)),
      Obj("_from" :> Num(<<"7">>) @@ "_to" :> Str(V1)),
      Obj([k \in {"name"} |-> Str(<<"x">>)]),
      Num(<<"7">>) }

GraphInputs == UNION {[1..n -> GraphItems] : n \in 0..MaxLen}

NoResult == [ok |-> FALSE, error |-> "none"]

GraphIdle ==
    /\ array = <<>>
    /\ g_pc = "idle"
    /\ graph_check = NoResult
    /\ graph_check2 = NoResult

QueryIdle ==
    /\ q_pc = "idle"
    /\ results = <<>>
    /\ cursor_id = <<>>
    /\ requests = <<>>
    /\ responses = <<>>
    /\ q_ret = "none"

CytoIdle ==
    /\ c_pc = "idle"
    /\ vertices = <<>>
    /\ edges = <<>>
    /\ network_suid = <<>>
    /\ node_columns_left = {}
    /\ edge_columns_left = {}
    /\ sent = <<>>
    /\ c_ret = "none"
    /\ printed = <<>>

InitGraph ==
    /\ array \in GraphInputs
    /\ g_pc = "input"
    /\ graph_check = NoResult
    /\ graph_check2 = NoResult
    /\ QueryIdle
    /\ CytoIdle

\* graph_analyzer::is_graph(&results), main.rs line 221
Classify ==
    /\ g_pc = "input"
    /\ graph_check' \in is_graph(array)
    /\ g_pc' = "classified"
    /\ UNCHANGED <<array, graph_check2, qvars, cvars>>

\* is_graph on the array made of the returned vertices followed by the
\* returned edges
Reclassify ==
    /\ g_pc = "classified"
    /\ graph_check.ok
    /\ graph_check2' \in is_graph(graph_check.vertices \o graph_check.edges)
    /\ g_pc' = "reclassified"
    /\ UNCHANGED <<array, graph_check, qvars, cvars>>

NextGraph == Classify \/ Reclassify

SpecGraph == InitGraph /\ [][NextGraph]_vars

---------------------------------------------------------------------------
(* Properties of is_graph *)

\* a string with exactly one separator: there is a '/' and it is the only one
WellFormedId(x) ==
    /\ x.t = "String"
    /\ \E i \in 1..Len(x.v) :
         /\ x.v[i] = "/"
         /\ \A j \in 1..Len(x.v) : x.v[j] = "/" => j = i

IsEdgeDoc(item) ==
    item.t = "Object" /\ {"_from", "_to"} \subseteq DOMAIN item.o

IsVertexDoc(item) ==
    item.t = "Object" /\ "_id" \in DOMAIN item.o /\ ~IsEdgeDoc(item)

WellFormedEdge(item) ==
    IsEdgeDoc(item) /\ WellFormedId(item.o["_from"]) /\ WellFormedId(item.o["_to"])

WellFormedVertex(item) ==
    IsVertexDoc(item) /\ WellFormedId(item.o["_id"])

Classified == g_pc # "input"

VertexIdsOf(r) == {r.vertices[i].o["_id"] : i \in 1..Len(r.vertices)}

\* C1: an array with at least one well-formed edge and otherwise only
\* well-formed vertices is classified successfully, and every _from and _to
\* of a returned edge is the _id of a returned vertex.
C1_EndpointsResolved ==
    ( /\ Classified
      /\ \E i \in 1..Len(array) : WellFormedEdge(array[i])
      /\ \A i \in 1..Len(array) :
            WellFormedEdge(array[i]) \/ WellFormedVertex(array[i]) )
    => /\ graph_check.ok
       /\ \A i \in 1..Len(graph_check.edges) :
             /\ graph_check.edges[i].o["_from"] \in VertexIdsOf(graph_check)
             /\ graph_check.edges[i].o["_to"] \in VertexIdsOf(graph_check)

\* a successful classification with an explicit vertex and a placeholder
C1_Witness ==
    /\ g_pc = "classified"
    /\ graph_check.ok
    /\ \E i \in 1..Len(array) : WellFormedVertex(array[i])
    /\ \A i \in 1..Len(array) :
          WellFormedEdge(array[i]) \/ WellFormedVertex(array[i])
    /\ Len(graph_check.vertices)
         > Cardinality({i \in 1..Len(array) : WellFormedVertex(array[i])})

MalformedAt(i) ==
    \/ IsEdgeDoc(array[i]) /\ ~WellFormedEdge(array[i])
    \/ IsVertexDoc(array[i]) /\ ~WellFormedVertex(array[i])

\* C7: an array holding an edge document whose _from or _to is not a string
\* with exactly one '/', or a vertex document whose _id is not one, is
\* rejected, wherever that element stands and whatever else the array holds.
C7_MalformedRejected ==
    (Classified /\ \E i \in 1..Len(array) : MalformedAt(i)) => ~graph_check.ok

\* a malformed element that comes last, after a well-formed edge
C7_Witness ==
    /\ Classified
    /\ Len(array) >= 2
    /\ WellFormedEdge(array[1])
    /\ MalformedAt(Len(array))
    /\ \A i \in 1..(Len(array) - 1) : ~MalformedAt(i)
    /\ ~graph_check.ok

\* C8: an array without an edge document is rejected, whatever the number of
\* well-formed vertices; a returned pair never has an empty edge set.
C8_NoEdgesRejected ==
    Classified =>
        /\ (\A i \in 1..Len(array) : ~IsEdgeDoc(array[i])) => ~graph_check.ok
        /\ graph_check.ok => graph_check.edges # <<>>

\* a non-empty array of well-formed vertices only
C8_Witness ==
    /\ Classified
    /\ Len(array) >= 2
    /\ \A i \in 1..Len(array) : WellFormedVertex(array[i])
    /\ ~graph_check.ok
    /\ graph_check.error = "Array contains no valid edges"

\* C9: classifying the vertices followed by the edges of a successful
\* classification succeeds with the same set of vertices and the same set of
\* edges, and synthesizes no further placeholder.
C9_Idempotent ==
    g_pc = "reclassified" =>
        /\ graph_check2.ok
        /\ Range(graph_check2.vertices) = Range(graph_check.vertices)
        /\ Range(graph_check2.edges) = Range(graph_check.edges)
        /\ Len(graph_check2.vertices) = Len(graph_check.vertices)
        /\ Len(graph_check2.edges) = Len(graph_check.edges)

\* the first classification synthesized a placeholder beside an explicit vertex
C9_Witness ==
    /\ g_pc = "reclassified"
    /\ graph_check2.ok
    /\ \E i \in 1..Len(array) : WellFormedVertex(array[i])
    /\ Len(graph_check.vertices)
         > Cardinality({i \in 1..Len(array) : WellFormedVertex(array[i])})

---------------------------------------------------------------------------
(* execute_query *)

\* An Option is a sequence of length 0 (None) or 1 (Some).
Doc1 == Num(<<"1">>)
Doc2 == Num(<<"2">>)
Doc3 == Num(<<"3">>)

\* response.get("result").and_then(|r| r.as_array())
ResultFields == {<<>>, <<(<<Doc1>>)>>, <<(<<Doc2, Doc3>>)>>}

\* What the store can answer to one request: the request fails in transport
\* (send() is Err), the body is not JSON (json() is Err), or a JSON body
\* arrives under some HTTP status, with or without result, hasMore, id.
StoreResponses ==
    {[kind |-> "transport"]}
    \cup [kind : {"notjson"}, status : {200, 500}]
    \cup [kind : {"json"}, status : {200, 500}, result : ResultFields,
          hasMore : {<<>>, <<TRUE>>, <<FALSE>>}, id : {<<>>, <<"c">>}]

\* send().await? and json().await? both succeed
Parsed(r) == r.kind = "json"

Extend_prepend(res, r) ==
    IF r.result # <<>> THEN r.result[1] \o res ELSE res

\* if let Some(result) = ... { results.extend(result.iter().cloned()) }
Extend(res, r) ==
    IF r.result # <<>> THEN res \o r.result[1] ELSE res

\* if let Some(true) = initial_response.get("hasMore").and_then(|h| h.as_bool())
InitialHasMore(r) == r.hasMore = <<TRUE>>

\* cursor_response["hasMore"].as_bool().unwrap_or(false)
ContinueHasMore(r) == r.hasMore = <<TRUE>>

InitQuery ==
    /\ q_pc = "start"
    /\ results = <<>>
    /\ cursor_id = <<>>
    /\ requests = <<>>
    /\ responses = <<>>
    /\ q_ret = "none"
    /\ GraphIdle
    /\ CytoIdle

\* lines 92-107: the cursor-creation request and its response
CreateCursor ==
    /\ q_pc = "start"
    /\ \E r \in StoreResponses :
        /\ requests' = Append(requests, [method |-> "POST", path |-> <<"_api/cursor">>])
        /\ responses' = Append(responses, r)
        /\ IF ~Parsed(r)
           THEN /\ q_ret' = "Err"
                /\ q_pc' = "done"
                /\ UNCHANGED <<results, cursor_id>>
           ELSE /\ results' = Extend(results, r)
                /\ IF InitialHasMore(r)
                   THEN IF r.id = <<>>
                        THEN \* initial_response["id"].as_str().unwrap()
                             /\ q_ret' = "Panic"
                             /\ q_pc' = "done"
                             /\ UNCHANGED cursor_id
                        ELSE /\ cursor_id' = r.id
                             /\ q_pc' = "loop"
                             /\ UNCHANGED q_ret
                   ELSE /\ q_ret' = "Ok"
                        /\ q_pc' = "done"
                        /\ UNCHANGED cursor_id
    /\ UNCHANGED <<gvars, cvars>>

\* lines 109-128: one iteration of the loop
Continue ==
    /\ q_pc = "loop"
    /\ Len(requests) < MaxRequests
    /\ \E r \in StoreResponses :
        /\ requests' = Append(requests,
                [method |-> "PUT", path |-> <<"_api/cursor", cursor_id[1]>>])
        /\ responses' = Append(responses, r)
        /\ IF ~Parsed(r)
           THEN /\ q_ret' = "Err"
                /\ q_pc' = "done"
                /\ UNCHANGED results
           ELSE /\ results' = Extend(results, r)
                /\ IF ContinueHasMore(r)
                   THEN UNCHANGED <<q_pc, q_ret>>
                   ELSE /\ q_ret' = "Ok"
                        /\ q_pc' = "done"
    /\ UNCHANGED <<cursor_id, gvars, cvars>>

NextQuery == CreateCursor \/ Continue

SpecQuery == InitQuery /\ [][NextQuery]_vars

---------------------------------------------------------------------------
(* Properties of execute_query *)

Is2xx(status) == 200 <= status /\ status < 300

\* a response of the store's protocol: 2xx, a JSON body with a result array
WellFormedResponse(r) ==
    r.kind = "json" /\ Is2xx(r.status) /\ r.result # <<>>

RECURSIVE ConcatBatches(_)
ConcatBatches(rs) ==
    IF rs = <<>> THEN <<>>
    ELSE ConcatBatches(SubSeq(rs, 1, Len(rs) - 1)) \o rs[Len(rs)].result[1]

\* the responses so far are well formed, all but the last report
\* hasMore = true, and the first carries the cursor id a continuation needs
PagesSoFar ==
    /\ responses # <<>>
    /\ \A i \in 1..Len(responses) : WellFormedResponse(responses[i])
    /\ \A i \in 1..(Len(responses) - 1) : responses[i].hasMore = <<TRUE>>
    /\ Len(responses) > 1 => responses[1].id # <<>>

ExpectedRequests(k) ==
    [i \in 1..(k + 1) |->
        IF i = 1 THEN [method |-> "POST", path |-> <<"_api/cursor">>]
        ELSE [method |-> "PUT", path |-> <<"_api/cursor", responses[1].id[1]>>]]

\* C2: when the first k responses report hasMore = true and response k+1
\* reports hasMore = false, execute_query has sent one cursor-creation
\* request followed by exactly k continuation requests, sends nothing more,
\* and returns Ok with the batches of the k+1 responses concatenated in
\* arrival order; while the last response reports hasMore = true it goes on.
C2_DrainsCursor ==
    PagesSoFar =>
        /\ requests = ExpectedRequests(Len(responses) - 1)
        /\ results = ConcatBatches(responses)
        /\ responses[Len(responses)].hasMore = <<FALSE>> =>
              q_pc = "done" /\ q_ret = "Ok" /\ ~ENABLED NextQuery
        /\ ( /\ responses[Len(responses)].hasMore = <<TRUE>>
             /\ responses[1].id # <<>> ) => q_pc = "loop" /\ q_ret = "none"

\* hasMore:true three times, then hasMore:false, with different batches
C2_Witness ==
    /\ PagesSoFar
    /\ Len(responses) = 4
    /\ responses[4].hasMore = <<FALSE>>
    /\ responses[1].result # responses[2].result
    /\ q_ret = "Ok"
    /\ Len(results) >= 5

\* C3 as stated: execute_query does not return Ok when a response has a
\* non-2xx status, when a response lacks result, or when a continuation
\* response lacks hasMore.
C3_FailsOnBadResponse ==
    ( /\ q_pc = "done"
      /\ \E i \in 1..Len(responses) :
            /\ responses[i].kind = "json"
            /\ \/ ~Is2xx(responses[i].status)
               \/ responses[i].result = <<>>
               \/ i > 1 /\ responses[i].hasMore = <<>> )
    => q_ret # "Ok"

---------------------------------------------------------------------------
(* send_to_cytoscape *)

\* k.starts_with('_'), over the keys the documents of the model carry:
\* _id, _key, _from, _to, _rev, name, id, weight
StartsWithUnderscore(k) ==
    k \in {"_id", "_key", "_from", "_to", "_rev"}

\* collect_attributes, lines 11-23
collect_attributes(objects) ==
    UNION {{k \in DOMAIN objects[i].o : ~StartsWithUnderscore(k)} :
              i \in {j \in 1..Len(objects) : IsObject(objects[j])}}

\* filter_map: the elements f maps to Some, in order
RECURSIVE FilterMap(_, _)
FilterMap(opts, i) ==
    IF i > Len(opts) THEN <<>>
    ELSE opts[i] \o FilterMap(opts, i + 1)

\* the closure of lines 36-58, an Option.  The discovered attributes are
\* inserted after "id" and "name" and replace them when they bear that name.
NodeOf(v, vertex_attributes) ==
    IF ~IsObject(v) \/ ~Has(v, "_id") THEN <<>>
    ELSE LET present == vertex_attributes \cap DOMAIN v.o IN
         <<[data |-> [k \in {"id", "name"} \cup present |->
                        IF k \in present THEN v.o[k] ELSE v.o["_id"]]]>>

\* the closure of lines 64-87, an Option
EdgeOf(e, edge_attributes) ==
    IF ~IsObject(e) \/ ~Has(e, "_key") THEN <<>>
    ELSE LET present == edge_attributes \cap DOMAIN e.o IN
         <<[data |-> [k \in {"id", "source", "target"} \cup present |->
                        IF k \in present THEN e.o[k]
                        ELSE IF k = "id" THEN e.o["_key"]
                        ELSE IF k = "source" THEN e.o["_from"]
                        ELSE e.o["_to"]]]>>

cytoscape_vertices(vs) ==
    FilterMap([i \in 1..Len(vs) |-> NodeOf(vs[i], collect_attributes(vs))], 1)

cytoscape_edges(es) ==
    FilterMap([i \in 1..Len(es) |-> EdgeOf(es[i], collect_attributes(es))], 1)

\* the match of lines 127-132 and 161-166, an Option
TypeName(val) ==
    IF val.t = "String" THEN <<"String">>
    ELSE IF val.t = "Number" THEN <<"Double">>
    ELSE IF val.t = "Bool" THEN <<"Boolean">>
    ELSE <<>>

RECURSIVE FindType(_, _, _)
\* find_map over the documents, from the i-th on
FindType(docs, i, attr) ==
    IF i > Len(docs) THEN <<>>
    ELSE LET found == IF IsObject(docs[i]) /\ Has(docs[i], attr)
                      THEN TypeName(docs[i].o[attr]) ELSE <<>>
         IN  IF found # <<>> THEN found ELSE FindType(docs, i + 1, attr)

ColumnType_firstHolder(docs, attr) ==
    LET holders == {i \in 1..Len(docs) : Has(docs[i], attr)}
        first == CHOOSE i \in holders : \A j \in holders : i <= j
    IN  IF TypeName(docs[first].o[attr]) # <<>>
        THEN TypeName(docs[first].o[attr])[1] ELSE "String"

\* .unwrap_or("String"), lines 134 and 168
ColumnType(docs, attr) ==
    IF FindType(docs, 1, attr) # <<>> THEN FindType(docs, 1, attr)[1] ELSE "String"

PhaseAfter_skipEdgeColumns(nleft, eleft) ==
    IF nleft # {} THEN "node_columns" ELSE "layout"

\* where control stands once the node columns nleft and the edge columns
\* eleft remain to be created: the two for loops, then the layout
PhaseAfter(nleft, eleft) ==
    IF nleft # {} THEN "node_columns"
    ELSE IF eleft # {} THEN "edge_columns"
    ELSE "layout"

\* What the service can answer to the network creation: the request fails in
\* transport, the body is not JSON, or a JSON body arrives under some status
\* with or without an integer networkSUID.
NetworkResponses ==
    {[kind |-> "transport"], [kind |-> "notjson"]}
    \cup [kind : {"json"}, status : {200, 500}, networkSUID : {<<>>, <<52>>}]
    \cup {[kind |-> "json", status |-> 200, networkSUID |-> <<53>>]}

\* What it can answer to a column or layout request: only send() is awaited.
PlainResponses ==
    {[kind |-> "transport"]} \cup [kind : {"http"}, status : {200, 500}]

\* println!("Created network with SUID: {}", network_suid), line 118
CreatedLine(suid) == [text |-> "Created network with SUID: {}", arg |-> <<suid>>]

\* println!("Applied force-directed layout"), line 197
LayoutLine == [text |-> "Applied force-directed layout", arg |-> <<>>]

\* the arguments: what is_graph returns
VertexDocs ==
    { Obj([k \in {"_id"} |-> Str(V1)]),
      Obj("_id" :> Str(V1) @@ "name" :> Str(<<"A">>)),
      Obj("_id" :> Str(V2) @@ "name" :> Null @@ "id" :> Num(<<"3">>)),
      Obj("_id" :> Str(V2) @@ "name" :> Bool(<<"t">>) @@ "id" :> Arr),
      Obj("_id" :> Str(V3) @@ "_rev" :> Str(<<"r">>) @@ "name" :> Obj(<<>>)) }

EdgeDocs ==
    { Obj("_from" :> Str(V1) @@ "_to" :> Str(V2) @@ "_key" :> Str(<<"e">>)),
      Obj("_from" :> Str(V1) @@ "_to" :> Str(V2) @@ "weight" :> Null),
      Obj("_from" :> Str(V2) @@ "_to" :> Str(V3) @@ "_key" :> Str(<<"f">>)
            @@ "weight" :> Num(<<"8">>)) }

InitCyto ==
    /\ c_pc = "start"
    /\ vertices \in UNION {[1..n -> VertexDocs] : n \in 1..MaxDocs}
    /\ edges \in UNION {[1..n -> EdgeDocs] : n \in 1..MaxDocs}
    /\ network_suid = <<>>
    /\ node_columns_left = {}
    /\ edge_columns_left = {}
    /\ sent = <<>>
    /\ c_ret = "none"
    /\ printed = <<>>
    /\ GraphIdle
    /\ QueryIdle

\* lines 25-118: build the payload, create the network, read its SUID
CreateNetwork ==
    /\ c_pc = "start"
    /\ \E r \in NetworkResponses :
        /\ sent' = Append(sent, [req |-> "POST networks",
                                 nodes |-> cytoscape_vertices(vertices),
                                 edges |-> cytoscape_edges(edges),
                                 resp |-> r])
        /\ IF r.kind # "json" \/ r.networkSUID = <<>>
           THEN /\ c_ret' = "Err"
                /\ c_pc' = "done"
                /\ UNCHANGED <<network_suid, node_columns_left, edge_columns_left,
                               printed>>
           ELSE /\ network_suid' = r.networkSUID
                /\ printed' = Append(printed, CreatedLine(r.networkSUID[1]))
                /\ node_columns_left' = collect_attributes(vertices)
                /\ edge_columns_left' = collect_attributes(edges)
                /\ c_pc' = PhaseAfter(collect_attributes(vertices),
                                      collect_attributes(edges))
                /\ UNCHANGED c_ret
    /\ UNCHANGED <<vertices, edges, gvars, qvars>>

\* lines 120-152: one iteration over node_table_columns, in HashMap order
CreateNodeColumn ==
    /\ c_pc = "node_columns"
    /\ \E attr \in node_columns_left, r \in PlainResponses :
        /\ sent' = Append(sent, [req |-> "POST defaultnode column",
                                 suid |-> network_suid[1], name |-> attr,
                                 type |-> ColumnType(vertices, attr), resp |-> r])
        /\ node_columns_left' = node_columns_left \ {attr}
        /\ IF r.kind = "transport"
           THEN c_ret' = "Err" /\ c_pc' = "done"
           ELSE /\ c_pc' = PhaseAfter(node_columns_left \ {attr}, edge_columns_left)
                /\ UNCHANGED c_ret
    /\ UNCHANGED <<vertices, edges, network_suid, edge_columns_left, printed,
                   gvars, qvars>>

\* lines 154-186: one iteration over edge_table_columns, in HashMap order
CreateEdgeColumn ==
    /\ c_pc = "edge_columns"
    /\ \E attr \in edge_columns_left, r \in PlainResponses :
        /\ sent' = Append(sent, [req |-> "POST defaultedge column",
                                 suid |-> network_suid[1], name |-> attr,
                                 type |-> ColumnType(edges, attr), resp |-> r])
        /\ edge_columns_left' = edge_columns_left \ {attr}
        /\ IF r.kind = "transport"
           THEN c_ret' = "Err" /\ c_pc' = "done"
           ELSE /\ c_pc' = PhaseAfter(node_columns_left, edge_columns_left \ {attr})
                /\ UNCHANGED c_ret
    /\ UNCHANGED <<vertices, edges, network_suid, node_columns_left, printed,
                   gvars, qvars>>

\* lines 188-199: the layout request, then Ok(())
ApplyLayout ==
    /\ c_pc = "layout"
    /\ \E r \in PlainResponses :
        /\ sent' = Append(sent, [req |-> "PUT layout", suid |-> network_suid[1],
                                 resp |-> r])
        /\ c_ret' = IF r.kind = "transport" THEN "Err" ELSE "Ok"
        /\ printed' = IF r.kind = "transport" THEN printed
                      ELSE Append(printed, LayoutLine)
    /\ c_pc' = "done"
    /\ UNCHANGED <<vertices, edges, network_suid, node_columns_left,
                   edge_columns_left, gvars, qvars>>

NextCyto == CreateNetwork \/ CreateNodeColumn \/ CreateEdgeColumn \/ ApplyLayout

SpecCyto == InitCyto /\ [][NextCyto]_vars

---------------------------------------------------------------------------
(* Properties of send_to_cytoscape *)

\* the attribute names some document carries, system fields left out
Discovered(docs) ==
    {k \in {"name", "id", "weight"} : \E i \in 1..Len(docs) : k \in DOMAIN docs[i].o}

IsColumn(x) == x.req \in {"POST defaultnode column", "POST defaultedge column"}

\* a request that was answered (whatever the status)
Answered(x) == x.resp.kind # "transport"

\* C4: a column or layout request is sent only after the network creation
\* has yielded its SUID, and targets that SUID; the layout request is sent
\* only after a column request for every vertex attribute and every edge
\* attribute has been answered, and nothing is sent after it.
C4_Ordering ==
    /\ \A i \in 1..Len(sent) :
          IF i = 1 THEN sent[i].req = "POST networks"
          ELSE /\ sent[i].req # "POST networks"
               /\ sent[1].resp.kind = "json"
               /\ sent[1].resp.networkSUID # <<>>
               /\ sent[i].suid = sent[1].resp.networkSUID[1]
               /\ Answered(sent[i - 1])
    /\ \A i \in 1..Len(sent) :
          sent[i].req = "PUT layout" =>
             /\ i = Len(sent)
             /\ \A a \in Discovered(vertices) : \E j \in 1..(i - 1) :
                   /\ sent[j].req = "POST defaultnode column"
                   /\ sent[j].name = a
             /\ \A a \in Discovered(edges) : \E j \in 1..(i - 1) :
                   /\ sent[j].req = "POST defaultedge column"
                   /\ sent[j].name = a

\* a whole run: two node columns, an edge column, then the layout
C4_Witness ==
    /\ c_pc = "done"
    /\ c_ret = "Ok"
    /\ Len(sent) = 5
    /\ sent[5].req = "PUT layout"
    /\ sent[5].suid = 53
    /\ sent[4].req = "POST defaultedge column"

ColumnFailed(x) ==
    IsColumn(x) /\ (x.resp.kind = "transport" \/ ~Is2xx(x.resp.status))

\* C5 as stated: once the network is created, a failed column request does
\* not stop the export: every column request and the layout request are
\* still attempted, and the result reports the failure.
C5_ContinuesAndReports ==
    ( /\ c_pc = "done"
      /\ network_suid # <<>>
      /\ \E i \in 1..Len(sent) : ColumnFailed(sent[i]) )
    => /\ \A a \in Discovered(vertices) : \E j \in 1..Len(sent) :
             sent[j].req = "POST defaultnode column" /\ sent[j].name = a
       /\ \A a \in Discovered(edges) : \E j \in 1..Len(sent) :
             sent[j].req = "POST defaultedge column" /\ sent[j].name = a
       /\ \E j \in 1..Len(sent) : sent[j].req = "PUT layout"
       /\ c_ret # "Ok"

NetworkFailed(r) ==
    \/ r.kind # "json"
    \/ ~Is2xx(r.status)
    \/ r.networkSUID = <<>>

\* C6 as stated: when the network-creation response has a non-2xx status or
\* lacks an integer networkSUID, send_to_cytoscape returns a failure and
\* sends no column request and no layout request.
C6_NetworkFailureAborts ==
    (sent # <<>> /\ NetworkFailed(sent[1].resp)) =>
        c_pc = "done" /\ c_ret = "Err" /\ Len(sent) = 1

TypedAt(docs, i, a) ==
    a \in DOMAIN docs[i].o /\ docs[i].o[a].t \in {"String", "Number", "Bool"}

\* the type of the first document holding a string, number or boolean
ExpectedType(docs, a) ==
    IF \A i \in 1..Len(docs) : ~TypedAt(docs, i, a) THEN "String"
    ELSE LET first == CHOOSE i \in 1..Len(docs) :
                        TypedAt(docs, i, a) /\ \A j \in 1..(i - 1) : ~TypedAt(docs, j, a)
             t == docs[first].o[a].t
         IN  CASE t = "String" -> "String"
               [] t = "Number" -> "Double"
               [] t = "Bool" -> "Boolean"

\* C10: the type of every column sent for a vertex (edge) attribute is that of
\* the first vertex (edge), in input order, holding a string, number or
\* boolean under the attribute, String when there is none; columns are sent
\* for discovered attributes only, and for each of them in a run that ends Ok.
C10_ColumnTypes ==
    /\ \A i \in 1..Len(sent) :
          /\ sent[i].req = "POST defaultnode column" =>
                /\ sent[i].name \in Discovered(vertices)
                /\ sent[i].type = ExpectedType(vertices, sent[i].name)
          /\ sent[i].req = "POST defaultedge column" =>
                /\ sent[i].name \in Discovered(edges)
                /\ sent[i].type = ExpectedType(edges, sent[i].name)
    /\ c_ret = "Ok" =>
          /\ \A a \in Discovered(vertices) : \E j \in 1..Len(sent) :
                sent[j].req = "POST defaultnode column" /\ sent[j].name = a
          /\ \A a \in Discovered(edges) : \E j \in 1..Len(sent) :
                sent[j].req = "POST defaultedge column" /\ sent[j].name = a

\* a Boolean column decided by the second vertex, the first holding null,
\* beside a column that defaults to String
C10_Witness ==
    /\ Len(vertices) = 2
    /\ "name" \in DOMAIN vertices[1].o /\ vertices[1].o["name"].t = "Null"
    /\ \E i \in 1..Len(sent) :
          /\ sent[i].req = "POST defaultnode column"
          /\ sent[i].name = "name"
          /\ sent[i].type = "Boolean"
    /\ \E i \in 1..Len(sent) :
          /\ sent[i].req = "POST defaultedge column"
          /\ sent[i].name = "weight"
          /\ sent[i].type = "String"
          /\ \A j \in 1..Len(edges) : ~TypedAt(edges, j, "weight")

\* the non-underscore attributes a document carries (all of them discovered)
PresentAttrs(doc) == {k \in {"name", "id", "weight"} : k \in DOMAIN doc.o}

HasKey(e) == "_key" \in DOMAIN e.o

\* the edges that carry a _key, in input order
KeyedEdges == SelectSeq(edges, HasKey)

\* C11 as stated: whatever other attributes a document carries, the export
\* node of a vertex has id = _id, the export edge of an edge has id = _key,
\* source = _from and target = _to, and the remaining fields (beside the
\* node's name) are exactly the discovered attributes the document carries,
\* with the document's values.
C11_ElementsTranslated ==
    sent # <<>> =>
        LET nodes == sent[1].nodes
            es    == sent[1].edges
        IN  /\ Len(nodes) = Len(vertices)
            /\ \A i \in 1..Len(nodes) :
                  /\ nodes[i].data["id"] = vertices[i].o["_id"]
                  /\ DOMAIN nodes[i].data \ {"id", "name"}
                        = PresentAttrs(vertices[i]) \ {"id", "name"}
                  /\ \A a \in PresentAttrs(vertices[i]) \ {"id", "name"} :
                        nodes[i].data[a] = vertices[i].o[a]
            /\ Len(es) = Len(KeyedEdges)
            /\ \A i \in 1..Len(es) :
                  /\ es[i].data["id"] = KeyedEdges[i].o["_key"]
                  /\ es[i].data["source"] = KeyedEdges[i].o["_from"]
                  /\ es[i].data["target"] = KeyedEdges[i].o["_to"]
                  /\ DOMAIN es[i].data \ {"id", "source", "target"}
                        = PresentAttrs(KeyedEdges[i]) \ {"id", "source", "target"}
                  /\ \A a \in PresentAttrs(KeyedEdges[i]) \ {"id", "source", "target"} :
                        es[i].data[a] = KeyedEdges[i].o[a]

\* a line of output, or a result, other than those of the network creation,
\* the layout and a failed request: the only place a drop could be told
DropSignaled ==
    \/ \E i \in 1..Len(printed) :
          printed[i].text \notin {"Created network with SUID: {}",
                                  "Applied force-directed layout"}
    \/ c_ret \notin {"none", "Ok", "Err"}

\* a request that failed in transport, or a network response without a
\* JSON body or without an integer networkSUID
RequestFailed(x) ==
    \/ x.resp.kind \in {"transport", "notjson"}
    \/ x.req = "POST networks" /\ x.resp.networkSUID = <<>>

\* the edges without _key are left out, and no Err comes of it
DroppedWithoutFailure ==
    sent # <<>> =>
        /\ Len(sent[1].edges) = Len(KeyedEdges)
        /\ c_ret = "Err" => \E i \in 1..Len(sent) : RequestFailed(sent[i])

\* C12 as stated: an edge without _key is left out of the export and does
\* not make it fail, and whenever fewer edges are exported than were passed
\* in, the drop is signaled in the log or in the result.
C12_DropSignaled ==
    /\ DroppedWithoutFailure
    /\ sent # <<>> =>
          (Len(sent[1].edges) # Len(edges) => DropSignaled)

=============================================================================
